---- MODULE Spec2Model ----
(***************************************************************************)
(* Model of native/mpv-embed/src/lib.rs: the lazily bound libmpv symbol    *)
(* table (MPV_FUNCS, load_mpv_library, load_symbols_from_lib) and the      *)
(* MpvHandle wrapper with its operations and its Drop implementation.      *)
(*                                                                         *)
(* Text produced by format! is modelled as the sequence of its pieces      *)
(* (literal fragments and formatted arguments), numbers being formatted    *)
(* with ToString.  The native engine and the operating system are the      *)
(* environment: every status code, every load outcome and every file       *)
(* existence test is chosen nondeterministically.                          *)
(***************************************************************************)
EXTENDS Integers, Sequences, FiniteSets, TLC

(* ------------------------------ bounds -------------------------------- *)

NumThreads == 2       \* host threads calling into the addon
NumHandles == 1       \* MpvHandle objects created during a run
MaxMissing == 3       \* entry points a candidate library may lack
MaxDestroy == 2       \* explicit shutdown() calls allowed per handle

Threads == 1..NumThreads
Handles == 1..NumHandles

\* The status codes the engine answers in the model: two failures, two successes.
Statuses == { -2, -1, 0, 1 }

(* ------------------------- native ABI surface ------------------------- *)

NullPtr == 0

MPV_FORMAT_FLAG == 3
MPV_FORMAT_INT64 == 4
MPV_FORMAT_DOUBLE == 5

\* The eight required entry points, in the order load_symbols_from_lib binds them.
RequiredSymbols ==
  << "mpv_create", "mpv_destroy", "mpv_initialize", "mpv_set_option",
     "mpv_set_option_string", "mpv_set_property", "mpv_get_property",
     "mpv_command" >>

OptionalSymbol == "mpv_set_log_level"

AllSymbols == {RequiredSymbols[i] : i \in 1..Len(RequiredSymbols)} \cup {OptionalSymbol}

\* A loaded library is the set of symbols it exports.
Libraries == {AllSymbols \ m : m \in {x \in SUBSET AllSymbols : Cardinality(x) <= MaxMissing}}

\* The text of the error values of libloading (opaque to this crate).
LookupError(sym) == "<lookup error " \o sym \o ">"
LoadError == "<load error>"

(* ------------------------- results and errors ------------------------- *)

\* () and the absent value of a failed result.
Unit == [unit |-> TRUE]

Ok(v) == [ok |-> TRUE, val |-> v, msg |-> << >>]
Err(m) == [ok |-> FALSE, val |-> Unit, msg |-> m]

\* Option<String>::None of last_err; a message is never the empty text.
NoError == << >>

(* ----------------------- load_symbols_from_lib ------------------------ *)

\* lib.get(name) for the required symbols i, i+1, ...: the index of the first
\* one that is not exported, 0 if all are.
RECURSIVE FirstMissing(_, _)
FirstMissing(lib, i) ==
  IF i > Len(RequiredSymbols) THEN 0
  ELSE IF RequiredSymbols[i] \notin lib THEN i
  ELSE FirstMissing(lib, i + 1)

\* Faulty variant of load_symbols_from_lib: mpv_command is not looked up.
load_symbols_skip_command(lib) ==
  LET m == FirstMissing(lib \cup {"mpv_command"}, 1) IN
  IF m # 0
    THEN Err(<< RequiredSymbols[m], ": ", LookupError(RequiredSymbols[m]) >>)
    ELSE Ok([set_log_level |-> OptionalSymbol \in lib, _lib |-> lib])

load_symbols_from_lib(lib) ==
  LET m == FirstMissing(lib, 1) IN
  IF m # 0
    THEN Err(<< RequiredSymbols[m], ": ", LookupError(RequiredSymbols[m]) >>)
    ELSE Ok([set_log_level |-> OptionalSymbol \in lib, _lib |-> lib])

\* Everything load_symbols_from_lib can answer for a library of the model.
BindResults == {load_symbols_from_lib(l) : l \in Libraries}

\* What one load attempt can come to: Library::new fails, or it yields a
\* library and load_symbols_from_lib answers syms for it.
LoadOutcomes ==
  {[loaded |-> FALSE, syms |-> Err(<< LoadError >>)]}
    \cup {[loaded |-> TRUE, syms |-> b] : b \in BindResults}

(* -------------------------- load_mpv_library -------------------------- *)

dll_names == << "libmpv-2.dll", "mpv.dll", "libmpv.dll" >>

\* What the resolver finds out about the process while it builds search_paths.
Environments ==
  [exe_dir : BOOLEAN,      \* current_exe() succeeded and has a parent
   resources : BOOLEAN,    \* exe_dir has a parent and resources/mpv-sdk exists
   cwd : BOOLEAN,          \* current_dir() succeeded
   dev_sdk : BOOLEAN,      \* <cwd>/mpv-sdk exists
   parent_sdk : BOOLEAN]   \* cwd has a parent and <cwd>/../mpv-sdk exists

build_search_paths(env) ==
  << "." >>
  \o (IF env.exe_dir
        THEN << "<exe_dir>" >>
             \o (IF env.resources THEN << "<exe_dir>/../resources/mpv-sdk" >> ELSE << >>)
        ELSE << >>)
  \o (IF env.cwd
        THEN (IF env.dev_sdk THEN << "<cwd>/mpv-sdk" >> ELSE << >>)
             \o (IF env.parent_sdk THEN << "<cwd>/../mpv-sdk" >> ELSE << >>)
        ELSE << >>)

\* search_path.join(dll_name), as printed by display().
dll_path(search_path, dll_name) == << search_path, "/", dll_name >>

\* One call of Library::new: the candidate (path 0: by bare name), whether
\* the file was seen to exist, and what the load and the binding came to.
NoLoad == [name |-> 0, path |-> 0, exists |-> FALSE, loaded |-> FALSE, syms |-> Err(NoError)]

Attempt(r, exists, outcome) ==
  [name |-> r.name, path |-> r.path, exists |-> exists, loaded |-> outcome.loaded,
   syms |-> outcome.syms]

\* The locals of one run of load_mpv_library.  name is the index of the
\* current dll_name, path the index of the current search_path (0: the
\* load by bare name comes next); done and ret tell whether it has returned
\* and what.  The other fields are instrumentation of the Library::new calls
\* of the run:
\*   last   the most recent one,
\*   bare   the most recent one by bare name,
\*   fault  the most recent one other than a failed load by bare name that
\*          did not yield a table,
\*   succ   one of them loaded a library,
\*   after  one of them was made after an earlier one had loaded a library.
NoRun ==
  [search_paths |-> << >>, last_err |-> NoError, name |-> 0, path |-> 0,
   done |-> FALSE, ret |-> Err(NoError),
   last |-> NoLoad, bare |-> NoLoad, fault |-> NoLoad, succ |-> FALSE, after |-> FALSE]

StartRun(env) ==
  [NoRun EXCEPT !.search_paths = build_search_paths(env), !.name = 1]

\* Library::new is called for the current candidate.
Loads(r, exists, outcome) ==
  LET a == Attempt(r, exists, outcome) IN
  [r EXCEPT !.last = a,
            !.bare = IF r.path = 0 THEN a ELSE @,
            !.fault = IF (r.path = 0 /\ ~a.loaded) \/ (a.loaded /\ a.syms.ok) THEN @ ELSE a,
            !.succ = @ \/ a.loaded,
            !.after = @ \/ r.succ]

\* `continue` of the outer loop / end of the inner loop.
NextName(r) == [r EXCEPT !.name = @ + 1, !.path = 0]

\* The next iteration of the inner loop over search_paths.
NextPath(r) ==
  IF r.path < Len(r.search_paths) THEN [r EXCEPT !.path = @ + 1] ELSE NextName(r)

\* load_mpv_library returns v.
Returned(r, v) == [r EXCEPT !.done = TRUE, !.ret = v]

\* Falling out of the outer loop returns the last error.
Continue(r) ==
  IF r.name > Len(dll_names)
    THEN Returned(r, Err(IF r.last_err # NoError THEN r.last_err ELSE << "No mpv DLL found" >>))
    ELSE r

\* Faulty variant of BareAttempt: after a binding failure of the library found by
\* bare name the search locations are tried for the same filename.
BareAttempt_then_paths(r0, outcome) ==
  LET r == Loads(r0, TRUE, outcome) IN
  IF outcome.loaded /\ outcome.syms.ok THEN Returned(r, outcome.syms)
  ELSE Continue([r EXCEPT !.path = 1,
                          !.last_err = IF outcome.loaded THEN outcome.syms.msg ELSE @])

\* Faulty variant of BareAttempt: the error of a failed load by bare name is kept
\* as the last error.
BareAttempt_keeps_error(r0, outcome) ==
  LET r == Loads(r0, TRUE, outcome) IN
  IF outcome.loaded
    THEN LET s == outcome.syms IN
         IF s.ok THEN Returned(r, s)
         ELSE Continue(NextName([r EXCEPT !.last_err = s.msg]))
    ELSE Continue([r EXCEPT !.path = 1, !.last_err = << LoadError >>])

\* Library::new(dll_name) and what follows it in the outer loop.
BareAttempt(r0, outcome) ==
  LET r == Loads(r0, TRUE, outcome) IN
  IF outcome.loaded
    THEN LET s == outcome.syms IN
         IF s.ok THEN Returned(r, s)
         ELSE Continue(NextName([r EXCEPT !.last_err = s.msg]))
    ELSE IF Len(r.search_paths) > 0
           THEN Continue([r EXCEPT !.path = 1])
           ELSE Continue(NextName(r))

\* Faulty variant of PathAttempt: a library that binds is not returned, the loop
\* goes on.
PathAttempt_no_return(r0, exists, outcome) ==
  LET name == dll_names[r0.name]
      p == dll_path(r0.search_paths[r0.path], name)
      r == Loads(r0, exists, outcome)
  IN
  IF ~exists THEN Continue(NextPath(r0))
  ELSE IF outcome.loaded
    THEN LET s == outcome.syms IN
         IF s.ok THEN Continue(NextPath(r))
         ELSE Continue(NextPath([r EXCEPT !.last_err =
                << "Failed to load symbols from " >> \o p \o << ": " >> \o s.msg]))
    ELSE Continue(NextPath([r EXCEPT !.last_err =
                << "Failed to load ", name, " from " >> \o p \o << ": ", LoadError >>]))

\* One iteration of the inner loop: dll_path.exists(), Library::new(dll_path).
PathAttempt(r0, exists, outcome) ==
  LET name == dll_names[r0.name]
      p == dll_path(r0.search_paths[r0.path], name)
      r == Loads(r0, exists, outcome)
  IN
  IF ~exists THEN Continue(NextPath(r0))
  ELSE IF outcome.loaded
    THEN LET s == outcome.syms IN
         IF s.ok THEN Returned(r, s)
         ELSE Continue(NextPath([r EXCEPT !.last_err =
                << "Failed to load symbols from " >> \o p \o << ": " >> \o s.msg]))
    ELSE Continue(NextPath([r EXCEPT !.last_err =
                << "Failed to load ", name, " from " >> \o p \o << ": ", LoadError >>]))

(* ------------------------------- state -------------------------------- *)

VARIABLES
  MPV_FUNCS,     \* the OnceLock's cell: [set |-> FALSE] or [set |-> TRUE, value |-> result]
  once,          \* the OnceLock's state: "incomplete", "running", "complete"
  pc,            \* pc[t]: where thread t is inside create()
  run,           \* run[t]: the locals of t's run of load_mpv_library
  probeRuns,     \* instrumentation: runs of load_mpv_library started
  bindFailed,    \* instrumentation: some loaded library lacked a required symbol
  observed,      \* instrumentation: the values get_mpv_funcs has handed to callers
  handles,       \* handles[h]: the MpvHandle object h
  destroyCalls,  \* instrumentation: mpv_destroy calls made with h's instance
  phase,         \* instrumentation: the lifecycle state of h (Unbound, Created,
                 \* Initialized, Shutdown)
  proc,          \* "running", or "aborted" once the process died
  lastOp         \* the host operation that just ran: its result and native calls,
                 \* until the caller has taken the result

vars == << MPV_FUNCS, once, pc, run, probeRuns, bindFailed, observed, handles,
           destroyCalls, phase, proc, lastOp >>

Unset == [set |-> FALSE]
Memo(v) == [set |-> TRUE, value |-> v]

NoHandle == [state |-> "unbound", handle |-> NullPtr, attached |-> FALSE]

NoOp == [op |-> "none", h |-> 0, input |-> << >>, result |-> Ok(Unit), calls |-> << >>]

Init ==
  /\ MPV_FUNCS = Unset
  /\ once = "incomplete"
  /\ pc = [t \in Threads |-> "idle"]
  /\ run = [t \in Threads |-> NoRun]
  /\ probeRuns = 0
  /\ bindFailed = FALSE
  /\ observed = {}
  /\ handles = [h \in Handles |-> NoHandle]
  /\ destroyCalls = [h \in Handles |-> 0]
  /\ phase = [h \in Handles |-> "Unbound"]
  /\ proc = "running"
  /\ lastOp = NoOp

(* --------------------- MPV_FUNCS and get_mpv_funcs -------------------- *)

\* Faulty variant of get_or_init: a plain "is it set" test, so that a caller arriving
\* during a run starts a run of its own.
get_or_init_racy(st) == IF st = "complete" THEN "get" ELSE "run"

\* Faulty variant of get_or_init: the value is not kept, every caller runs the
\* initializer again unless one is running.
get_or_init_retry(st) == IF st = "running" THEN "wait" ELSE "run"

\* OnceLock::get_or_init, as seen by a caller that finds the lock in state st:
\* it runs the initializer, waits for the running one, or reads the cell.
get_or_init(st) ==
  CASE st = "incomplete" -> "run"
    [] st = "running" -> "wait"
    [] st = "complete" -> "get"

\* get_mpv_funcs once the cell is set: the table, or the cloned reason.
get_mpv_funcs(cell) ==
  IF cell.value.ok THEN Ok(cell.value.val) ELSE Err(cell.value.msg)

\* A thread enters create() and, in get_mpv_funcs, finds the cell unset.
CreateEnter(t) ==
  /\ proc = "running"
  /\ pc[t] = "idle"
  /\ get_or_init(once) # "get"
  /\ IF get_or_init(once) = "run"
       THEN /\ \E env \in Environments : run' = [run EXCEPT ![t] = StartRun(env)]
            /\ once' = "running"
            /\ pc' = [pc EXCEPT ![t] = "resolving"]
            /\ probeRuns' = probeRuns + 1
       ELSE /\ pc' = [pc EXCEPT ![t] = "blocked"]
            /\ UNCHANGED << run, once, probeRuns >>
  /\ UNCHANGED << MPV_FUNCS, bindFailed, observed, handles, destroyCalls, phase, proc, lastOp >>

\* One iteration of the loops of load_mpv_library in thread t, by bare name.
ResolveBare(t) ==
  /\ proc = "running"
  /\ pc[t] = "resolving"
  /\ ~run[t].done
  /\ run[t].path = 0
  /\ \E outcome \in LoadOutcomes :
       /\ run' = [run EXCEPT ![t] = BareAttempt(run[t], outcome)]
       /\ bindFailed' = (bindFailed \/ (outcome.loaded /\ ~outcome.syms.ok))
  /\ UNCHANGED << MPV_FUNCS, once, pc, probeRuns, observed, handles, destroyCalls, phase,
                  proc, lastOp >>

\* One iteration of the inner loop of load_mpv_library in thread t.
ResolvePath(t) ==
  /\ proc = "running"
  /\ pc[t] = "resolving"
  /\ ~run[t].done
  /\ run[t].path > 0
  /\ \E exists \in BOOLEAN :
       \E outcome \in (IF exists THEN LoadOutcomes ELSE {o \in LoadOutcomes : ~o.loaded}) :
         /\ run' = [run EXCEPT ![t] = PathAttempt(run[t], exists, outcome)]
         /\ bindFailed' = (bindFailed \/ (exists /\ outcome.loaded /\ ~outcome.syms.ok))
  /\ UNCHANGED << MPV_FUNCS, once, pc, probeRuns, observed, handles, destroyCalls, phase,
                  proc, lastOp >>

\* load_mpv_library has returned in thread t: get_or_init stores the value
\* and completes the lock; the locals are gone.
ResolveReturn(t) ==
  /\ proc = "running"
  /\ pc[t] = "resolving"
  /\ run[t].done
  /\ MPV_FUNCS' = Memo(run[t].ret)
  /\ once' = "complete"
  /\ pc' = [pc EXCEPT ![t] = "resume"]
  /\ run' = [run EXCEPT ![t] = NoRun]
  /\ UNCHANGED << probeRuns, bindFailed, observed, handles, destroyCalls, phase, proc,
                  lastOp >>

(* ------------------------------ MpvHandle ----------------------------- *)

\* One call through the symbol table.  live tells whether the instance passed
\* had not yet been given to mpv_destroy.
Call(fn, handle, name, format, data, args, ret, live) ==
  [fn |-> fn, handle |-> handle, name |-> name, format |-> format, data |-> data,
   args |-> args, ret |-> ret, live |-> live]

\* What a handler leaves behind: the object, the result, the calls it made.
Done(self, result, calls) == [self |-> self, result |-> result, calls |-> calls]

\* The host operation op on handle h, called with input, ends with outcome d.
\* A call that passed a destroyed instance to the engine is undefined
\* behaviour: the operation may complete with whatever status the engine
\* answered, or the process dies.
Finish(op, h, input, d) ==
  LET dangling == \E i \in 1..Len(d.calls) : ~d.calls[i].live IN
  /\ observed' = observed \cup {MPV_FUNCS.value}
  /\ \/ /\ handles' = [handles EXCEPT ![h] = d.self]
        /\ lastOp' = [op |-> op, h |-> h, input |-> input, result |-> d.result,
                      calls |-> d.calls]
        /\ proc' = proc
     \/ /\ dangling
        /\ handles' = handles
        /\ lastOp' = [op |-> "aborted", h |-> h, input |-> << >>,
                      result |-> Err(<< "<process aborted>" >>), calls |-> << >>]
        /\ proc' = "aborted"

Live(h) == destroyCalls[h] = 0

\* Faulty variant of check_err: only a positive status counts as success.
check_err_strict(code, ctx) ==
  IF code <= 0 THEN Err(<< "mpv error ", ToString(code), ": ", ctx >>) ELSE Ok(Unit)

\* check_err: a negative status is an error naming the status and the context.
check_err(code, ctx) ==
  IF code < 0 THEN Err(<< "mpv error ", ToString(code), ": ", ctx >>) ELSE Ok(Unit)

\* Caller-supplied text is a sequence of bytes.  CString::new fails on the
\* first zero byte, and NulError's text gives its (zero-based) position.
RECURSIVE FirstNul(_, _)
FirstNul(bytes, i) ==
  IF i > Len(bytes) THEN 0
  ELSE IF bytes[i] = 0 THEN i
  ELSE FirstNul(bytes, i + 1)

CString_new(bytes) ==
  LET n == FirstNul(bytes, 1) IN
  IF n # 0
    THEN Err(<< "nul byte found in provided data at position: ", ToString(n - 1) >>)
    ELSE Ok(Unit)

\* unwrap() of a failed CString::new: the thread panics inside the handler.
Panic(m) == [ok |-> FALSE, val |-> [panic |-> TRUE], msg |-> m]

Texts == { << 97 >>, << 97, 0, 98 >> }

\* The baseline options of init, in the order of the array.
opts ==
  << << "force-window", "yes" >>,
     << "keep-open", "yes" >>,
     << "ytdl", "no" >>,
     << "vo", "gpu" >>,
     << "gpu-context", "d3d11" >>,
     << "hwdec", "auto-safe" >>,
     << "video-sync", "display-resample" >> >>

\* Faulty variant of init_opts: the status of an option-set call is dropped.
RECURSIVE init_opts_lenient(_, _, _, _, _)
init_opts_lenient(self, rets, live, i, calls) ==
  IF i > Len(opts) THEN Done(self, Ok(Unit), calls)
  ELSE init_opts_lenient(self, rets, live, i + 1,
         Append(calls, Call("mpv_set_option_string", self.handle, opts[i][1], 0, 0,
                            << opts[i][2] >>, rets[i], live)))

\* The for loop of init from option i on: the calls made and the first error.
\* rets[i] is what the engine answers to the i-th call of the handler.
RECURSIVE init_opts(_, _, _, _, _)
init_opts(self, rets, live, i, calls) ==
  IF i > Len(opts) THEN Done(self, Ok(Unit), calls)
  ELSE LET c == Call("mpv_set_option_string", self.handle, opts[i][1], 0, 0,
                     << opts[i][2] >>, rets[i], live)
           r == check_err(rets[i], opts[i][1])
       IN IF ~r.ok THEN Done(self, r, Append(calls, c))
          ELSE init_opts(self, rets, live, i + 1, Append(calls, c))

\* MpvHandle::init.
init(self, cell, rets, live) ==
  LET funcs == get_mpv_funcs(cell) IN
  IF ~funcs.ok THEN Done(self, Err(funcs.msg), << >>)
  ELSE LET o == init_opts(self, rets, live, 1, << >>) IN
       IF ~o.result.ok THEN o
       ELSE LET n == Len(opts) + 1 IN
            Done(self, check_err(rets[n], "initialize"),
                 Append(o.calls, Call("mpv_initialize", self.handle, "", 0, 0, << >>,
                                      rets[n], live)))

\* The answers of the engine to the calls of init: zero up to some call, one
\* status from then on.
InitAnswers ==
  { [i \in 1..(Len(opts) + 1) |-> IF i < k THEN 0 ELSE b] :
      k \in 1..(Len(opts) + 1), b \in Statuses }

\* MpvHandle::set_option_string.
set_option_string(self, cell, key, value, ret, live) ==
  LET funcs == get_mpv_funcs(cell) IN
  IF ~funcs.ok THEN Done(self, Err(funcs.msg), << >>)
  ELSE IF ~CString_new(key).ok THEN Done(self, Err(CString_new(key).msg), << >>)
  ELSE IF ~CString_new(value).ok THEN Done(self, Err(CString_new(value).msg), << >>)
  ELSE Done(self, check_err(ret, "set_option_string"),
            << Call("mpv_set_option_string", self.handle, key, 0, 0, << value >>, ret, live) >>)

\* hwnd as i64: a u32 widens to the same number.
hwnd64(hwnd) == hwnd

HwndValues == { 0, 12345 }

\* Faulty variant of attach_hwnd: no fallback, a failed option attempt fails the call.
attach_hwnd_no_fallback(self, cell, hwnd, opt_result, prop_result, live) ==
  LET funcs == get_mpv_funcs(cell)
      o == Call("mpv_set_option", self.handle, "wid", MPV_FORMAT_INT64, hwnd64(hwnd),
                << >>, opt_result, live)
      p == Call("mpv_set_property", self.handle, "wid", MPV_FORMAT_INT64, hwnd64(hwnd),
                << >>, prop_result, live)
  IN
  IF ~funcs.ok THEN Done(self, Err(funcs.msg), << >>)
  ELSE IF opt_result < 0
    THEN Done(self,
              Err(<< "Failed to set wid: option=", ToString(opt_result), ", property=",
                     ToString(prop_result), ", hwnd=", ToString(hwnd) >>),
              << o, p >>)
    ELSE Done([self EXCEPT !.attached = TRUE], Ok(Unit), << o, p >>)

\* Faulty variant of attach_hwnd: the property is set first, the option is the fallback.
attach_hwnd_property_first(self, cell, hwnd, opt_result, prop_result, live) ==
  LET funcs == get_mpv_funcs(cell)
      o == Call("mpv_set_option", self.handle, "wid", MPV_FORMAT_INT64, hwnd64(hwnd),
                << >>, opt_result, live)
      p == Call("mpv_set_property", self.handle, "wid", MPV_FORMAT_INT64, hwnd64(hwnd),
                << >>, prop_result, live)
  IN
  IF ~funcs.ok THEN Done(self, Err(funcs.msg), << >>)
  ELSE IF opt_result < 0 /\ prop_result < 0
    THEN Done(self,
              Err(<< "Failed to set wid: option=", ToString(opt_result), ", property=",
                     ToString(prop_result), ", hwnd=", ToString(hwnd) >>),
              << p, o >>)
    ELSE Done([self EXCEPT !.attached = TRUE], Ok(Unit), << p, o >>)

\* Faulty variant of attach_hwnd: the attached flag is cleared when both attempts fail.
attach_hwnd_detach(self, cell, hwnd, opt_result, prop_result, live) ==
  LET funcs == get_mpv_funcs(cell)
      o == Call("mpv_set_option", self.handle, "wid", MPV_FORMAT_INT64, hwnd64(hwnd),
                << >>, opt_result, live)
      p == Call("mpv_set_property", self.handle, "wid", MPV_FORMAT_INT64, hwnd64(hwnd),
                << >>, prop_result, live)
  IN
  IF ~funcs.ok THEN Done(self, Err(funcs.msg), << >>)
  ELSE IF opt_result < 0 /\ prop_result < 0
    THEN Done([self EXCEPT !.attached = FALSE],
              Err(<< "Failed to set wid: option=", ToString(opt_result), ", property=",
                     ToString(prop_result), ", hwnd=", ToString(hwnd) >>),
              << o, p >>)
    ELSE Done([self EXCEPT !.attached = TRUE], Ok(Unit), << o, p >>)

\* Faulty variant of attach_hwnd: the property is set only as the fallback.
attach_hwnd_skip_property(self, cell, hwnd, opt_result, prop_result, live) ==
  LET funcs == get_mpv_funcs(cell)
      o == Call("mpv_set_option", self.handle, "wid", MPV_FORMAT_INT64, hwnd64(hwnd),
                << >>, opt_result, live)
      p == Call("mpv_set_property", self.handle, "wid", MPV_FORMAT_INT64, hwnd64(hwnd),
                << >>, prop_result, live)
  IN
  IF ~funcs.ok THEN Done(self, Err(funcs.msg), << >>)
  ELSE IF opt_result >= 0 THEN Done([self EXCEPT !.attached = TRUE], Ok(Unit), << o >>)
  ELSE IF prop_result < 0
    THEN Done(self,
              Err(<< "Failed to set wid: option=", ToString(opt_result), ", property=",
                     ToString(prop_result), ", hwnd=", ToString(hwnd) >>),
              << o, p >>)
    ELSE Done([self EXCEPT !.attached = TRUE], Ok(Unit), << o, p >>)

\* MpvHandle::attach_hwnd.
attach_hwnd(self, cell, hwnd, opt_result, prop_result, live) ==
  LET funcs == get_mpv_funcs(cell)
      o == Call("mpv_set_option", self.handle, "wid", MPV_FORMAT_INT64, hwnd64(hwnd),
                << >>, opt_result, live)
      p == Call("mpv_set_property", self.handle, "wid", MPV_FORMAT_INT64, hwnd64(hwnd),
                << >>, prop_result, live)
  IN
  IF ~funcs.ok THEN Done(self, Err(funcs.msg), << >>)
  ELSE IF opt_result < 0 /\ prop_result < 0
    THEN Done(self,
              Err(<< "Failed to set wid: option=", ToString(opt_result), ", property=",
                     ToString(prop_result), ", hwnd=", ToString(hwnd) >>),
              << o, p >>)
    ELSE Done([self EXCEPT !.attached = TRUE], Ok(Unit), << o, p >>)

\* MpvHandle::load.
load(self, cell, url, ret, live) ==
  LET funcs == get_mpv_funcs(cell) IN
  IF ~funcs.ok THEN Done(self, Err(funcs.msg), << >>)
  ELSE IF ~CString_new(url).ok THEN Done(self, Panic(CString_new(url).msg), << >>)
  ELSE Done(self, check_err(ret, "loadfile"),
            << Call("mpv_command", self.handle, "", 0, 0, << "loadfile", url, "replace" >>,
                    ret, live) >>)

\* MpvHandle::pause.
pause(self, cell, paused, ret, live) ==
  LET funcs == get_mpv_funcs(cell) IN
  IF ~funcs.ok THEN Done(self, Err(funcs.msg), << >>)
  ELSE Done(self, check_err(ret, "pause"),
            << Call("mpv_set_property", self.handle, "pause", MPV_FORMAT_FLAG,
                    IF paused THEN 1 ELSE 0, << >>, ret, live) >>)

\* The sample values of the f64 arguments; {seconds} prints them as integers.
Doubles == { 0, 5 }

\* MpvHandle::seek.
seek(self, cell, seconds, relative, ret, live) ==
  LET funcs == get_mpv_funcs(cell) IN
  IF ~funcs.ok THEN Done(self, Err(funcs.msg), << >>)
  ELSE Done(self, check_err(ret, "seek"),
            << Call("mpv_command", self.handle, "", 0, 0,
                    << "seek", ToString(seconds),
                       IF relative THEN "relative" ELSE "absolute" >>, ret, live) >>)

\* MpvHandle::set_volume.
set_volume(self, cell, volume, ret, live) ==
  LET funcs == get_mpv_funcs(cell) IN
  IF ~funcs.ok THEN Done(self, Err(funcs.msg), << >>)
  ELSE Done(self, check_err(ret, "volume"),
            << Call("mpv_set_property", self.handle, "volume", MPV_FORMAT_DOUBLE,
                    volume, << >>, ret, live) >>)

\* MpvHandle::set_mute.
set_mute(self, cell, mute, ret, live) ==
  LET funcs == get_mpv_funcs(cell) IN
  IF ~funcs.ok THEN Done(self, Err(funcs.msg), << >>)
  ELSE Done(self, check_err(ret, "mute"),
            << Call("mpv_set_property", self.handle, "mute", MPV_FORMAT_FLAG,
                    IF mute THEN 1 ELSE 0, << >>, ret, live) >>)

\* MpvHandle::stop.
stop(self, cell, ret, live) ==
  LET funcs == get_mpv_funcs(cell) IN
  IF ~funcs.ok THEN Done(self, Err(funcs.msg), << >>)
  ELSE Done(self, check_err(ret, "stop"),
            << Call("mpv_command", self.handle, "", 0, 0, << "stop" >>, ret, live) >>)

\* The five reads of get_state, in order: property name and format.
state_props ==
  << << "pause", MPV_FORMAT_FLAG >>,
     << "time-pos", MPV_FORMAT_DOUBLE >>,
     << "duration", MPV_FORMAT_DOUBLE >>,
     << "volume", MPV_FORMAT_DOUBLE >>,
     << "mute", MPV_FORMAT_FLAG >> >>

\* mpv_get_property on a local initialised to zero: the engine stores the
\* value only when it answers a non-negative status.
read_into(answer) == IF answer.ret >= 0 THEN answer.data ELSE 0

\* Faulty variant of get_state: the status of each read is checked.
get_state_checked(self, cell, answers, live) ==
  LET funcs == get_mpv_funcs(cell)
      calls == [i \in 1..Len(state_props) |->
                  Call("mpv_get_property", self.handle, state_props[i][1], state_props[i][2],
                       read_into(answers[i]), << >>, answers[i].ret, live)]
      bad == {i \in 1..Len(state_props) : answers[i].ret < 0}
  IN
  IF ~funcs.ok THEN Done(self, Err(funcs.msg), << >>)
  ELSE IF bad # {}
    THEN LET i == CHOOSE k \in bad : \A j \in bad : k <= j IN
         Done(self, check_err(answers[i].ret, state_props[i][1]), SubSeq(calls, 1, i))
    ELSE Done(self,
              Ok([ready |-> TRUE, paused |-> read_into(answers[1]) # 0,
                  time |-> read_into(answers[2]), duration |-> read_into(answers[3]),
                  volume |-> read_into(answers[4]), mute |-> read_into(answers[5]) # 0]),
              calls)

\* MpvHandle::get_state.  answers[i] is the status and value of the i-th read;
\* the statuses are dropped (let _ =).
get_state(self, cell, answers, live) ==
  LET funcs == get_mpv_funcs(cell)
      paused == read_into(answers[1])
      time == read_into(answers[2])
      duration == read_into(answers[3])
      volume == read_into(answers[4])
      mute == read_into(answers[5])
  IN
  IF ~funcs.ok THEN Done(self, Err(funcs.msg), << >>)
  ELSE Done(self,
            Ok([ready |-> TRUE, paused |-> paused # 0, time |-> time,
                duration |-> duration, volume |-> volume, mute |-> mute # 0]),
            [i \in 1..Len(state_props) |->
               Call("mpv_get_property", self.handle, state_props[i][1], state_props[i][2],
                    read_into(answers[i]), << >>, answers[i].ret, live)])

\* What the engine answers to the five reads: any subset of them fails.  data
\* is the value the engine holds for the property, which it stores on success.
StateAnswers ==
  { [i \in 1..Len(state_props) |->
       IF i \in failed THEN [ret |-> -1, data |-> 1] ELSE [ret |-> 0, data |-> 1]] :
      failed \in SUBSET (1..Len(state_props)) }

\* Faulty variant of create: the status of mpv_set_log_level is checked.
create_checked_log(cell, ptr, log_status) ==
  LET funcs == get_mpv_funcs(cell) IN
  IF ~funcs.ok THEN Done(NoHandle, Err(funcs.msg), << >>)
  ELSE LET c1 == Call("mpv_create", NullPtr, "", 0, 0, << >>, ptr, TRUE)
           c2 == Call("mpv_set_log_level", ptr, "", 0, 0, << >>, log_status, TRUE)
       IN
       IF ptr = NullPtr THEN Done(NoHandle, Err(<< "mpv_create failed" >>), << c1 >>)
       ELSE IF funcs.val.set_log_level /\ log_status < 0
         THEN Done(NoHandle, check_err(log_status, "set_log_level"), << c1, c2 >>)
       ELSE Done([state |-> "live", handle |-> ptr, attached |-> FALSE], Ok(Unit),
                 IF funcs.val.set_log_level THEN << c1, c2 >> ELSE << c1 >>)

\* MpvHandle::create, given what mpv_create and mpv_set_log_level answer.
create(cell, ptr, log_status) ==
  LET funcs == get_mpv_funcs(cell) IN
  IF ~funcs.ok THEN Done(NoHandle, Err(funcs.msg), << >>)
  ELSE LET c1 == Call("mpv_create", NullPtr, "", 0, 0, << >>, ptr, TRUE) IN
       IF ptr = NullPtr THEN Done(NoHandle, Err(<< "mpv_create failed" >>), << c1 >>)
       ELSE Done([state |-> "live", handle |-> ptr, attached |-> FALSE], Ok(Unit),
                 IF funcs.val.set_log_level
                   THEN << c1, Call("mpv_set_log_level", ptr, "", 0, 0, << >>, log_status, TRUE) >>
                   ELSE << c1 >>)

\* The objects not yet created, and the one the next successful create() yields.
FreeSlots == {h \in Handles : handles[h].state = "unbound"}
FreeSlot == CHOOSE h \in FreeSlots : \A g \in FreeSlots : h <= g

\* create() from the point where get_mpv_funcs finds the cell set: the whole
\* call when it was set on entry, the rest of it for a thread that ran or
\* awaited the initialization.  The instance pointer is the number of the
\* object made; once NumHandles objects exist, mpv_create answers null.
Create(t) ==
  /\ proc = "running"
  /\ lastOp.op = "none"
  /\ once = "complete"
  /\ MPV_FUNCS.set
  /\ pc[t] \in {"idle", "resume", "blocked"}
  /\ \E ptr \in {NullPtr} \cup (IF FreeSlots # {} THEN {FreeSlot} ELSE {}) :
     \E log_status \in Statuses :
       LET d == create(MPV_FUNCS, ptr, log_status) IN
       /\ handles' = IF d.result.ok THEN [handles EXCEPT ![ptr] = d.self] ELSE handles
       /\ phase' = IF d.result.ok THEN [phase EXCEPT ![ptr] = "Created"] ELSE phase
       /\ lastOp' = [op |-> "create", h |-> ptr, input |-> << >>, result |-> d.result,
                     calls |-> d.calls]
  /\ observed' = observed \cup {MPV_FUNCS.value}
  /\ pc' = [pc EXCEPT ![t] = "idle"]
  /\ UNCHANGED << MPV_FUNCS, once, run, probeRuns, bindFailed, destroyCalls, proc >>

\* The host calls a method of the live object h.  Methods are entered while no
\* create() is in flight: create() touches no existing object, so interleaving
\* the two adds no behaviour of either.
Callable(h) ==
  /\ proc = "running"
  /\ lastOp.op = "none"
  /\ handles[h].state = "live"
  /\ MPV_FUNCS.set
  /\ \A t \in Threads : pc[t] = "idle"

\* MpvHandle::shutdown.
shutdown(self, cell, live) ==
  LET funcs == get_mpv_funcs(cell) IN
  IF ~funcs.ok THEN Done(self, Err(funcs.msg), << >>)
  ELSE Done(self, Ok(Unit),
            << Call("mpv_destroy", self.handle, "", 0, 0, << >>, 0, live) >>)

DestroysIn(calls) == Cardinality({i \in 1..Len(calls) : calls[i].fn = "mpv_destroy"})

Shutdown(h) ==
  /\ Callable(h)
  /\ destroyCalls[h] < MaxDestroy
  /\ LET d == shutdown(handles[h], MPV_FUNCS, Live(h)) IN
       /\ destroyCalls' = [destroyCalls EXCEPT ![h] = @ + DestroysIn(d.calls)]
       /\ Finish("shutdown", h, << >>, d)
  /\ phase' = [phase EXCEPT ![h] = "Shutdown"]
  /\ UNCHANGED << MPV_FUNCS, once, pc, run, probeRuns, bindFailed >>

\* Drop for MpvHandle: the object is gone afterwards.
drop(self, cell, live) ==
  LET funcs == get_mpv_funcs(cell) IN
  IF funcs.ok /\ self.handle # NullPtr
    THEN Done([self EXCEPT !.state = "dropped"], Ok(Unit),
              << Call("mpv_destroy", self.handle, "", 0, 0, << >>, 0, live) >>)
    ELSE Done([self EXCEPT !.state = "dropped"], Ok(Unit), << >>)

Drop(h) ==
  /\ Callable(h)
  /\ LET d == drop(handles[h], MPV_FUNCS, Live(h)) IN
       /\ destroyCalls' = [destroyCalls EXCEPT ![h] = @ + DestroysIn(d.calls)]
       /\ Finish("drop", h, << >>, d)
  /\ phase' = [phase EXCEPT ![h] = "Shutdown"]
  /\ UNCHANGED << MPV_FUNCS, once, pc, run, probeRuns, bindFailed >>

Frame == UNCHANGED << MPV_FUNCS, once, pc, run, probeRuns, bindFailed, destroyCalls >>

InitHandle(h) ==
  /\ Callable(h)
  /\ \E rets \in InitAnswers :
       LET d == init(handles[h], MPV_FUNCS, rets, Live(h)) IN
       /\ Finish("init", h, << >>, d)
       /\ phase' = [phase EXCEPT ![h] = IF @ = "Created" /\ d.result.ok /\ proc' = "running"
                                          THEN "Initialized" ELSE @]
  /\ Frame

SetOptionString(h) ==
  /\ Callable(h)
  /\ \E key \in Texts : \E value \in Texts : \E ret \in Statuses :
       Finish("set_option_string", h, << key, value >>,
              set_option_string(handles[h], MPV_FUNCS, key, value, ret, Live(h)))
  /\ UNCHANGED phase
  /\ Frame

AttachHwnd(h) ==
  /\ Callable(h)
  /\ \E hwnd \in HwndValues : \E opt_result \in Statuses : \E prop_result \in Statuses :
       Finish("attach_hwnd", h, << hwnd >>,
              attach_hwnd(handles[h], MPV_FUNCS, hwnd, opt_result, prop_result, Live(h)))
  /\ UNCHANGED phase
  /\ Frame

Load(h) ==
  /\ Callable(h)
  /\ \E url \in Texts : \E ret \in Statuses :
       Finish("load", h, << url >>, load(handles[h], MPV_FUNCS, url, ret, Live(h)))
  /\ UNCHANGED phase
  /\ Frame

Pause(h) ==
  /\ Callable(h)
  /\ \E paused \in BOOLEAN : \E ret \in Statuses :
       Finish("pause", h, << paused >>, pause(handles[h], MPV_FUNCS, paused, ret, Live(h)))
  /\ UNCHANGED phase
  /\ Frame

Seek(h) ==
  /\ Callable(h)
  /\ \E seconds \in Doubles : \E relative \in BOOLEAN : \E ret \in Statuses :
       Finish("seek", h, << seconds, relative >>, seek(handles[h], MPV_FUNCS, seconds, relative, ret, Live(h)))
  /\ UNCHANGED phase
  /\ Frame

SetVolume(h) ==
  /\ Callable(h)
  /\ \E volume \in Doubles : \E ret \in Statuses :
       Finish("set_volume", h, << volume >>, set_volume(handles[h], MPV_FUNCS, volume, ret, Live(h)))
  /\ UNCHANGED phase
  /\ Frame

SetMute(h) ==
  /\ Callable(h)
  /\ \E mute \in BOOLEAN : \E ret \in Statuses :
       Finish("set_mute", h, << mute >>, set_mute(handles[h], MPV_FUNCS, mute, ret, Live(h)))
  /\ UNCHANGED phase
  /\ Frame

Stop(h) ==
  /\ Callable(h)
  /\ \E ret \in Statuses : Finish("stop", h, << >>, stop(handles[h], MPV_FUNCS, ret, Live(h)))
  /\ UNCHANGED phase
  /\ Frame

GetState(h) ==
  /\ Callable(h)
  /\ \E answers \in StateAnswers :
       Finish("get_state", h, << >>, get_state(handles[h], MPV_FUNCS, answers, Live(h)))
  /\ UNCHANGED phase
  /\ Frame

\* The caller takes the result of the operation that just ran.
Return ==
  /\ proc = "running"
  /\ lastOp.op # "none"
  /\ lastOp' = NoOp
  /\ UNCHANGED << MPV_FUNCS, once, pc, run, probeRuns, bindFailed, observed, handles,
                  destroyCalls, phase, proc >>

Next ==
  \/ \E t \in Threads : CreateEnter(t)
  \/ \E t \in Threads : ResolveBare(t)
  \/ \E t \in Threads : ResolvePath(t)
  \/ \E t \in Threads : ResolveReturn(t)
  \/ \E t \in Threads : Create(t)
  \/ \E h \in Handles : InitHandle(h)
  \/ \E h \in Handles : SetOptionString(h)
  \/ \E h \in Handles : AttachHwnd(h)
  \/ \E h \in Handles : Load(h)
  \/ \E h \in Handles : Pause(h)
  \/ \E h \in Handles : Seek(h)
  \/ \E h \in Handles : SetVolume(h)
  \/ \E h \in Handles : SetMute(h)
  \/ \E h \in Handles : Stop(h)
  \/ \E h \in Handles : GetState(h)
  \/ \E h \in Handles : Shutdown(h)
  \/ \E h \in Handles : Drop(h)
  \/ Return

Spec == Init /\ [][Next]_vars

(* ------------------------------ properties ---------------------------- *)

\* A host operation has just run on h and its result is with the caller.
Ran(op) == lastOp.op = op

\* C1: for every handle, over any sequence of operations that ends with its
\* disposal (shutdown once, shutdown twice, shutdown then Drop), mpv_destroy is
\* invoked at most once with that handle's native instance.
C1_DestroyAtMostOnce ==
  \A h \in Handles : destroyCalls[h] <= 1

\* C2: shutdown() calls mpv_destroy only on a non-null instance pointer and
\* leaves the pointer null, so that a second shutdown(), or the disposal of a
\* handle already shut down, makes no native call at all.
C2_ShutdownNullsPointer ==
  /\ Ran("shutdown") => handles[lastOp.h].handle = NullPtr
  /\ (Ran("shutdown") \/ Ran("drop")) =>
       \A i \in 1..Len(lastOp.calls) : lastOp.calls[i].live

\* C3: when several threads make the first access to MPV_FUNCS concurrently,
\* load_mpv_library runs exactly once (never two runs, never two threads inside
\* it), a caller goes on only once the cell is set, and every caller is handed
\* the same memoized value.
C3_SingleInitialization ==
  /\ probeRuns <= 1
  /\ Cardinality({t \in Threads : pc[t] = "resolving"}) <= 1
  /\ (MPV_FUNCS.set <=> once = "complete")
  /\ (MPV_FUNCS.set => probeRuns = 1)
  /\ \A t \in Threads : pc[t] = "resume" => MPV_FUNCS.set
  /\ Cardinality(observed) <= 1
  /\ (MPV_FUNCS.set => observed \subseteq {MPV_FUNCS.value})

\* C3 witness: one thread ran the initialization and has been handed the value
\* by create(), while another thread that came during the run still waits.
C3_Witness ==
  /\ probeRuns = 1
  /\ observed # {}
  /\ \E t \in Threads : pc[t] = "blocked"

\* C4: once a failed resolution is memoized, the cell never changes, no run of
\* load_mpv_library starts or advances (so no file is probed and no library is
\* loaded again), and every later create() fails with the memoized reason
\* without any native call.
C4_FailureMemoized ==
  [][ (MPV_FUNCS.set /\ ~MPV_FUNCS.value.ok) =>
        /\ MPV_FUNCS' = MPV_FUNCS
        /\ run' = run
        /\ probeRuns' = probeRuns
        /\ (lastOp'.op = "create" =>
              /\ lastOp'.result = Err(MPV_FUNCS.value.msg)
              /\ lastOp'.calls = << >>) ]_vars

\* C4 witness: the failure is memoized and a create() has returned it.
C4_Witness ==
  /\ MPV_FUNCS.set
  /\ ~MPV_FUNCS.value.ok
  /\ Ran("create")
  /\ lastOp.result = Err(MPV_FUNCS.value.msg)

\* The required entry points a library lacks, by their place in the lookup order.
Absent(lib) == {i \in 1..Len(RequiredSymbols) : RequiredSymbols[i] \notin lib}

\* For every library of the model that lacks a required entry point, binding
\* fails and the reason starts with the name of the first one it lacks.
BindingNamesFirstMissing ==
  \A l \in Libraries :
    Absent(l) # {} =>
      LET r == load_symbols_from_lib(l) IN
      /\ ~r.ok
      /\ \E i \in Absent(l) : (\A j \in Absent(l) : i <= j) /\ r.msg[1] = RequiredSymbols[i]

BindingIffComplete ==
  \A l \in Libraries :
    LET r == load_symbols_from_lib(l) IN
    /\ r.ok <=> Absent(l) = {}
    /\ r.ok => (r.val.set_log_level <=> OptionalSymbol \in l)

\* C6: binding succeeds iff all 8 required entry points are present, whatever
\* the optional one; create() calls mpv_set_log_level exactly when the table
\* holds it (and mpv_create answered an instance), and succeeds exactly when
\* mpv_create answered an instance, whatever status the log-level call returned.
C6_OptionalEntryPoint ==
  /\ BindingIffComplete
  /\ (MPV_FUNCS.set /\ MPV_FUNCS.value.ok) =>
       /\ Absent(MPV_FUNCS.value.val._lib) = {}
       /\ MPV_FUNCS.value.val.set_log_level <=> OptionalSymbol \in MPV_FUNCS.value.val._lib
  /\ (Ran("create") /\ MPV_FUNCS.value.ok) =>
       /\ lastOp.calls[1].fn = "mpv_create"
       /\ lastOp.result.ok <=> lastOp.calls[1].ret # NullPtr
       /\ (\E i \in 1..Len(lastOp.calls) : lastOp.calls[i].fn = "mpv_set_log_level")
            <=> (MPV_FUNCS.value.val.set_log_level /\ lastOp.calls[1].ret # NullPtr)

\* C6 witness: create() succeeded although mpv_set_log_level returned an error.
C6_Witness ==
  /\ Ran("create")
  /\ lastOp.result.ok
  /\ Len(lastOp.calls) = 2
  /\ lastOp.calls[2].fn = "mpv_set_log_level"
  /\ lastOp.calls[2].ret < 0

\* A step in which the host operation op runs (operations start only when the
\* previous result has been taken).
Runs(op) == lastOp.op = "none" /\ lastOp'.op = op

\* C7: attach_hwnd fails iff the option attempt and the property attempt both
\* return a negative status; the message then holds the option status, the
\* property status and the hwnd supplied, and the attached flag is as before.
C7_AttachFailsIffBothFail ==
  [][ Runs("attach_hwnd") =>
        LET o == lastOp'.calls[1]
            p == lastOp'.calls[2]
            h == lastOp'.h
        IN
        /\ o.fn = "mpv_set_option"
        /\ p.fn = "mpv_set_property"
        /\ ~lastOp'.result.ok <=> (o.ret < 0 /\ p.ret < 0)
        /\ ~lastOp'.result.ok =>
             /\ lastOp'.result.msg[2] = ToString(o.ret)
             /\ lastOp'.result.msg[4] = ToString(p.ret)
             /\ lastOp'.result.msg[6] = ToString(lastOp'.input[1])
             /\ handles'[h].attached = handles[h].attached ]_vars

\* C7 witness: an attach_hwnd failed with two different status codes on a
\* handle that was attached before.
C7_Witness ==
  /\ Ran("attach_hwnd")
  /\ ~lastOp.result.ok
  /\ lastOp.calls[1].ret # lastOp.calls[2].ret
  /\ handles[lastOp.h].attached

\* C8: when the option attempt returns a negative status and the property
\* attempt a non-negative one, attach_hwnd succeeds and the attached flag is
\* true; the property attempt comes after the option attempt, with the same
\* name and the same 64-bit encoding of the hwnd.
C8_PropertyFallback ==
  (/\ Ran("attach_hwnd")
   /\ lastOp.calls[1].ret < 0
   /\ lastOp.calls[2].ret >= 0) =>
     /\ lastOp.result.ok
     /\ handles[lastOp.h].attached
     /\ Len(lastOp.calls) = 2
     /\ lastOp.calls[1].fn = "mpv_set_option"
     /\ lastOp.calls[2].fn = "mpv_set_property"
     /\ lastOp.calls[2].name = lastOp.calls[1].name
     /\ lastOp.calls[2].format = lastOp.calls[1].format
     /\ lastOp.calls[2].data = lastOp.calls[1].data
     /\ lastOp.calls[1].format = MPV_FORMAT_INT64
     /\ lastOp.calls[1].data = lastOp.input[1]

\* C8 witness: the option attempt failed, the property attempt succeeded.
C8_Witness ==
  /\ Ran("attach_hwnd")
  /\ lastOp.calls[1].ret < 0
  /\ lastOp.calls[2].ret >= 0
  /\ lastOp.input[1] # 0

\* C9: the attached flag of a handle is false until an attach_hwnd on it has
\* returned success, and once true no operation sets it back to false.
C9_AttachedMonotone ==
  /\ \A h \in Handles : ~handles[h].attached
  /\ [][ \A h \in Handles :
           /\ handles[h].attached => handles'[h].attached
           /\ (~handles[h].attached /\ handles'[h].attached) =>
                /\ lastOp'.op = "attach_hwnd"
                /\ lastOp'.h = h
                /\ lastOp'.result.ok ]_vars

\* C9 witness: a handle that is attached has been shut down and a later
\* attach_hwnd on it failed; the flag is still true.
C9_Witness ==
  /\ Ran("attach_hwnd")
  /\ ~lastOp.result.ok
  /\ handles[lastOp.h].attached
  /\ phase[lastOp.h] = "Shutdown"

\* The value a field of the snapshot has when its read stored nothing.
StateDefaults == << FALSE, 0, 0, 0, FALSE >>

\* The fields of the snapshot, in the order of the reads.
Snapshot(v) == << v.paused, v.time, v.duration, v.volume, v.mute >>

C11_ShutdownAlwaysSucceeds ==
  [][ destroyCalls' # destroyCalls =>
        /\ lastOp'.op \in {"shutdown", "drop"}
        /\ lastOp'.result.ok
        /\ proc' = "running" ]_vars

\* A text holds a zero byte.
HasNul(bytes) == \E i \in 1..Len(bytes) : bytes[i] = 0

\* C12: a caller-supplied string with an embedded terminator (the key or the
\* value of set_option_string, the URI of load) makes the operation return an
\* explicit failure result, and no native entry point is called.
C12_EmbeddedTerminatorRejected ==
  ((Ran("set_option_string") \/ Ran("load"))
     /\ \E i \in 1..Len(lastOp.input) : HasNul(lastOp.input[i])) =>
    /\ lastOp.result = Err(lastOp.result.msg)
    /\ lastOp.calls = << >>

\* The baseline options in the order the handle is to apply them.
BaselineOptions ==
  << "force-window", "keep-open", "ytdl", "vo", "gpu-context", "hwdec", "video-sync" >>

\* C16: init sets the seven baseline options in their fixed order and calls
\* mpv_initialize only after all seven calls returned a non-negative status;
\* the first negative status ends init with a failure naming that option (no
\* later option is set, mpv_initialize is not called), and a negative status
\* of mpv_initialize fails with the context "initialize".
C16_InitOrder ==
  Ran("init") =>
    LET c == lastOp.calls
        n == Len(lastOp.calls)
    IN
    /\ n \in 1..(Len(BaselineOptions) + 1)
    /\ \A i \in 1..n :
         IF i <= Len(BaselineOptions)
           THEN c[i].fn = "mpv_set_option_string" /\ c[i].name = BaselineOptions[i]
           ELSE c[i].fn = "mpv_initialize"
    /\ \A i \in 1..(n - 1) : c[i].ret >= 0
    /\ n <= Len(BaselineOptions) => c[n].ret < 0
    /\ lastOp.result.ok <=> (n = Len(BaselineOptions) + 1 /\ c[n].ret >= 0)
    /\ ~lastOp.result.ok =>
         /\ lastOp.result.msg[2] = ToString(c[n].ret)
         /\ lastOp.result.msg[4] =
              IF n <= Len(BaselineOptions) THEN BaselineOptions[n] ELSE "initialize"

\* C16 witness: init failed at the fourth option, after three were set.
C16_Witness ==
  /\ Ran("init")
  /\ ~lastOp.result.ok
  /\ Len(lastOp.calls) = 4
  /\ lastOp.result.msg[4] = "vo"

\* C17: every attach_hwnd makes exactly one mpv_set_option call followed by
\* exactly one mpv_set_property call; when the option attempt returns a
\* non-negative status the call succeeds and the attached flag is true,
\* whatever the property attempt returns.
C17_OptionThenProperty ==
  Ran("attach_hwnd") =>
    /\ Len(lastOp.calls) = 2
    /\ lastOp.calls[1].fn = "mpv_set_option"
    /\ lastOp.calls[2].fn = "mpv_set_property"
    /\ lastOp.calls[1].ret >= 0 =>
         /\ lastOp.result.ok
         /\ handles[lastOp.h].attached

\* C17 witness: the option attempt succeeded and the property attempt failed.
C17_Witness ==
  /\ Ran("attach_hwnd")
  /\ lastOp.calls[1].ret >= 0
  /\ lastOp.calls[2].ret < 0
  /\ lastOp.result.ok

\* The operations that are one native call, and the name each gives check_err.
SingleCallOps == {"load", "pause", "seek", "set_volume", "set_mute", "stop"}

LogicalName(op) ==
  CASE op = "load" -> "loadfile"
    [] op = "pause" -> "pause"
    [] op = "seek" -> "seek"
    [] op = "set_volume" -> "volume"
    [] op = "set_mute" -> "mute"
    [] op = "stop" -> "stop"

\* The operation that just ran made one native call and failed exactly if
\* that call returned a negative status, with the status and the name.
OneCallChecked ==
  /\ Len(lastOp.calls) = 1
  /\ ~lastOp.result.ok <=> lastOp.calls[1].ret < 0
  /\ ~lastOp.result.ok =>
       /\ lastOp.result.msg[2] = ToString(lastOp.calls[1].ret)
       /\ lastOp.result.msg[4] = LogicalName(lastOp.op)

\* C18 (as stated): each of load, pause, seek, set_volume, set_mute and stop
\* makes exactly one native call per invocation and fails iff that call
\* returns a negative status, with the status code and the logical name.
C18_OneCallPerInvocation ==
  lastOp.op \in SingleCallOps => OneCallChecked

\* C18 (amended): the same, for pause, seek, set_volume, set_mute, stop and
\* for load when its URI has no embedded terminator.
C18_OneCallPerWellFormedInvocation ==
  (/\ lastOp.op \in SingleCallOps
   /\ lastOp.op = "load" => ~HasNul(lastOp.input[1])) => OneCallChecked

\* C18 witness: a seek failed with the status of its one native call.
C18_Witness ==
  /\ Ran("seek")
  /\ ~lastOp.result.ok
  /\ lastOp.calls[1].ret = -2

\* The operations on a handle other than shutdown.
HandleOps ==
  {"init", "attach_hwnd", "set_option_string", "load", "pause", "seek", "set_volume",
   "set_mute", "stop", "get_state"}

\* C19: after shutdown() has run on a handle, no operation on it passes the
\* destroyed instance to a native entry point: every native call an operation
\* makes is given an instance that mpv_destroy has not had.
C19_NoCallOnDestroyedInstance ==
  lastOp.op \in HandleOps =>
    \A i \in 1..Len(lastOp.calls) : lastOp.calls[i].live

\* The run of load_mpv_library in progress, if any thread is in one.
Resolving(t) == pc[t] = "resolving"

EndsWith(m, e) ==
  /\ Len(e) <= Len(m)
  /\ SubSeq(m, Len(m) - Len(e) + 1, Len(m)) = e

NotFound == << "No mpv DLL found" >>

\* The reason m reports the attempt a of run r: it ends with a's error and,
\* for a load from a search location, holds the filename and the location.
Reports(m, a, r) ==
  /\ EndsWith(m, a.syms.msg)
  /\ a.path > 0 =>
       /\ \E k \in 1..Len(m) : m[k] = dll_names[a.name]
       /\ \E k \in 1..Len(m) : m[k] = r.search_paths[a.path]

C15_FilenameMajorOrder ==
  [][ \A t \in Threads :
        (Resolving(t) /\ run'[t].last # run[t].last /\ run'[t].last # NoLoad) =>
          LET a == run'[t].last
              b == run[t].last
          IN
          /\ a.name \in 1..Len(dll_names)
          /\ a.path \in 0..Len(run[t].search_paths)
          /\ IF b = NoLoad
               THEN a.name = 1 /\ a.path = 0
               ELSE \/ a.name = b.name /\ a.path > b.path
                    \/ a.name > b.name /\ a.path = 0
          /\ a.path > 0 =>
               /\ a.exists
               /\ run[t].bare.name = a.name
               /\ ~run[t].bare.loaded ]_vars

\* C15 witness: the second filename was loaded from its second location after
\* an attempt at its first location.
C15_Witness ==
  \E t \in Threads :
    /\ Resolving(t)
    /\ run[t].last.name = 2
    /\ run[t].last.path = 2
    /\ run[t].fault.name = 2
    /\ run[t].fault.path = 1

====
